---------------------------- MODULE Spec2Model ----------------------------
(***************************************************************************)
(* Model of src/app.py: the log pre-processor served at POST /process.     *)
(*                                                                         *)
(* Text is a sequence of one-character strings, so that lower(), strip()   *)
(* and the three regular expressions are computed character by character  *)
(* the way Python's str and re compute them (greedy quantifiers with       *)
(* backtracking, leftmost match, IGNORECASE on literals).                  *)
(***************************************************************************)
EXTENDS Naturals, Sequences, FiniteSets, TLC

(***************************************************************************)
(* Characters                                                              *)
(***************************************************************************)
UpperToLower ==
    ("A" :> "a") @@ ("B" :> "b") @@ ("C" :> "c") @@ ("D" :> "d") @@
    ("E" :> "e") @@ ("F" :> "f") @@ ("G" :> "g") @@ ("H" :> "h") @@
    ("I" :> "i") @@ ("J" :> "j") @@ ("K" :> "k") @@ ("L" :> "l") @@
    ("M" :> "m") @@ ("N" :> "n") @@ ("O" :> "o") @@ ("P" :> "p") @@
    ("Q" :> "q") @@ ("R" :> "r") @@ ("S" :> "s") @@ ("T" :> "t") @@
    ("U" :> "u") @@ ("V" :> "v") @@ ("W" :> "w") @@ ("X" :> "x") @@
    ("Y" :> "y") @@ ("Z" :> "z")

UpperLetters == DOMAIN UpperToLower

LowerLetters == {UpperToLower[c] : c \in UpperLetters}

Digits == {"0", "1", "2", "3", "4", "5", "6", "7", "8", "9"}

\* str.isspace() / \s : the blanks a line can hold once splitlines() has cut it
SpaceChars == {" ", "\t"}

\* \w
WordChars == UpperLetters \cup LowerLetters \cup Digits \cup {"_"}

\* str.lower() on one character
LowerChar(c) == IF c \in UpperLetters THEN UpperToLower[c] ELSE c

\* str.lower()
Lower(text) == [i \in 1..Len(text) |-> LowerChar(text[i])]

RECURSIVE LStrip(_)
LStrip(text) ==
    IF text = <<>> THEN <<>>
    ELSE IF Head(text) \in SpaceChars THEN LStrip(Tail(text))
    ELSE text

RECURSIVE RStrip(_)
RStrip(text) ==
    IF text = <<>> THEN <<>>
    ELSE IF text[Len(text)] \in SpaceChars
         THEN RStrip(SubSeq(text, 1, Len(text) - 1))
    ELSE text

\* str.strip()
Strip(text) == RStrip(LStrip(text))

(***************************************************************************)
(* Regular expressions: a pattern is a sequence of elements                *)
(*   lit  : a literal text, compared ignoring case (re.IGNORECASE)         *)
(*   star : class*  (greedy, zero or more)                                 *)
(*   plus : class+  (greedy, one or more)                                  *)
(*   open / close : the parentheses of capture group g                     *)
(***************************************************************************)
Lit(s)   == [t |-> "lit",   s |-> s,    c |-> "",  g |-> 0]
Star(c)  == [t |-> "star",  s |-> <<>>, c |-> c,   g |-> 0]
Plus(c)  == [t |-> "plus",  s |-> <<>>, c |-> c,   g |-> 0]
Open(g)  == [t |-> "open",  s |-> <<>>, c |-> "",  g |-> g]
Close(g) == [t |-> "close", s |-> <<>>, c |-> "",  g |-> g]

\* the character classes the three patterns use
InClass(cls, ch) ==
    CASE cls = "\\s"     -> ch \in SpaceChars
      [] cls = "\\S"     -> ch \notin SpaceChars
      [] cls = "\\w"     -> ch \in WordChars
      [] cls = "[-\\w]"  -> ch \in WordChars \cup {"-"}

\* the literal s stands in text at position pos, letter case ignored
LitAt(s, text, pos) ==
    /\ pos + Len(s) - 1 <= Len(text)
    /\ \A i \in 1..Len(s) : LowerChar(text[pos + i - 1]) = LowerChar(s[i])

\* length of the longest run of class cls in text from position pos
RECURSIVE Run(_, _, _)
Run(cls, text, pos) ==
    IF pos <= Len(text) /\ InClass(cls, text[pos])
    THEN 1 + Run(cls, text, pos + 1)
    ELSE 0

NoMatch == [ok |-> FALSE, end |-> 0, caps |-> <<<<0, 0>>, <<0, 0>>>>]

\* the backtracking matcher: elements k.. of pat against text from pos
RECURSIVE MatchFrom(_, _, _, _, _)
RECURSIVE TryRepeat(_, _, _, _, _, _, _)
MatchFrom(pat, k, text, pos, caps) ==
    IF k > Len(pat) THEN [ok |-> TRUE, end |-> pos, caps |-> caps]
    ELSE LET e == pat[k] IN
         CASE e.t = "lit" ->
                IF LitAt(e.s, text, pos)
                THEN MatchFrom(pat, k + 1, text, pos + Len(e.s), caps)
                ELSE NoMatch
           [] e.t = "open" ->
                MatchFrom(pat, k + 1, text, pos,
                          [caps EXCEPT ![e.g] = <<pos, pos>>])
           [] e.t = "close" ->
                MatchFrom(pat, k + 1, text, pos,
                          [caps EXCEPT ![e.g] = <<caps[e.g][1], pos>>])
           [] e.t = "star" ->
                TryRepeat(pat, k, text, pos, caps, Run(e.c, text, pos), 0)
           [] e.t = "plus" ->
                TryRepeat(pat, k, text, pos, caps, Run(e.c, text, pos), 1)

\* a greedy quantifier: the longest repetition first, then shorter ones
TryRepeat(pat, k, text, pos, caps, n, min) ==
    IF n < min THEN NoMatch
    ELSE LET r == MatchFrom(pat, k + 1, text, pos + n, caps) IN
         IF r.ok THEN r
         ELSE IF n = 0 THEN NoMatch
         ELSE TryRepeat(pat, k, text, pos, caps, n - 1, min)

\* the match at the leftmost start position in lo..hi that has one; the
\* positions are tried in ascending order (the interval is halved only to
\* keep the evaluation shallow)
RECURSIVE SearchFrom(_, _, _, _)
SearchFrom(pat, text, lo, hi) ==
    IF lo = hi
    THEN MatchFrom(pat, 1, text, lo, <<<<0, 0>>, <<0, 0>>>>)
    ELSE LET mid == (lo + hi) \div 2
             r   == SearchFrom(pat, text, lo, mid)
         IN  IF r.ok THEN r ELSE SearchFrom(pat, text, mid + 1, hi)

\* pattern.search(text): the match at the leftmost position that has one
Search(pat, text) == SearchFrom(pat, text, 1, Len(text) + 1)

\* match.group(g)
Group(text, m, g) == SubSeq(text, m.caps[g][1], m.caps[g][2] - 1)

(***************************************************************************)
(* The module-level patterns                                               *)
(***************************************************************************)
\* r"%PM-4-ERR_DISABLE:\s*(\w+)\s*error detected on\s*(\S+)"
ERR_DISABLE_PATTERN ==
    << Lit(<<"%","P","M","-","4","-","E","R","R","_",
             "D","I","S","A","B","L","E",":">>),
       Star("\\s"), Open(1), Plus("\\w"), Close(1), Star("\\s"),
       Lit(<<"e","r","r","o","r"," ","d","e","t","e","c","t","e","d"," ",
             "o","n">>),
       Star("\\s"), Open(2), Plus("\\S"), Close(2) >>

\* r"%PM-4-ERR_RECOVER:\s*Attempting to recover from\s*(\w+)\s*err-disable state on\s*(\S+)"
RECOVER_PATTERN ==
    << Lit(<<"%","P","M","-","4","-","E","R","R","_",
             "R","E","C","O","V","E","R",":">>),
       Star("\\s"),
       Lit(<<"A","t","t","e","m","p","t","i","n","g"," ","t","o"," ",
             "r","e","c","o","v","e","r"," ","f","r","o","m">>),
       Star("\\s"), Open(1), Plus("\\w"), Close(1), Star("\\s"),
       Lit(<<"e","r","r","-","d","i","s","a","b","l","e"," ",
             "s","t","a","t","e"," ","o","n">>),
       Star("\\s"), Open(2), Plus("\\S"), Close(2) >>

\* r"(\w+[-\w]*)\s*%PM-4"
DEVICE_PATTERN ==
    << Open(1), Plus("\\w"), Star("[-\\w]"), Close(1), Star("\\s"),
       Lit(<<"%","P","M","-","4">>) >>

\* the literal "unknown"
Unknown == <<"u","n","k","n","o","w","n">>

\* Python's None, as extract_fields returns it
None == [py |-> "None"]

(***************************************************************************)
(* The per-line functions                                                  *)
(***************************************************************************)
\* preprocess_text that forgets lower()
preprocess_text_no_lower(raw_log) ==
    IF raw_log = <<>> THEN <<>>
    ELSE Strip(raw_log)

preprocess_text(raw_log) ==
    IF raw_log = <<>> THEN <<>>
    ELSE Strip(Lower(raw_log))

\* extract_device_name that searches the case-folded line
extract_device_name_folded(raw_log) ==
    IF raw_log = <<>> THEN Unknown
    ELSE LET device_match == Search(DEVICE_PATTERN, Lower(raw_log)) IN
         IF device_match.ok THEN Group(Lower(raw_log), device_match, 1)
         ELSE Unknown

extract_device_name(raw_log) ==
    IF raw_log = <<>> THEN Unknown
    ELSE LET device_match == Search(DEVICE_PATTERN, raw_log) IN
         IF device_match.ok THEN Group(raw_log, device_match, 1)
         ELSE Unknown

\* extract_fields that tests the recover match before the disable match
extract_fields_recover_first(preprocessed_text, raw_log) ==
    IF preprocessed_text = <<>> THEN None
    ELSE LET err_match   == Search(ERR_DISABLE_PATTERN, preprocessed_text)
             rec_match   == Search(RECOVER_PATTERN, preprocessed_text)
             device_name == extract_device_name(raw_log)
         IN  IF rec_match.ok
             THEN [event_type  |-> "ERR_RECOVER",
                   device_name |-> device_name,
                   reason      |-> Group(preprocessed_text, rec_match, 1),
                   interface   |-> Group(preprocessed_text, rec_match, 2)]
             ELSE IF err_match.ok
             THEN [event_type  |-> "ERR_DISABLE",
                   device_name |-> device_name,
                   reason      |-> Group(preprocessed_text, err_match, 1),
                   interface   |-> Group(preprocessed_text, err_match, 2)]
             ELSE None

extract_fields(preprocessed_text, raw_log) ==
    IF preprocessed_text = <<>> THEN None
    ELSE LET err_match   == Search(ERR_DISABLE_PATTERN, preprocessed_text)
             rec_match   == Search(RECOVER_PATTERN, preprocessed_text)
             device_name == extract_device_name(raw_log)
         IN  IF err_match.ok
             THEN [event_type  |-> "ERR_DISABLE",
                   device_name |-> device_name,
                   reason      |-> Group(preprocessed_text, err_match, 1),
                   interface   |-> Group(preprocessed_text, err_match, 2)]
             ELSE IF rec_match.ok
             THEN [event_type  |-> "ERR_RECOVER",
                   device_name |-> device_name,
                   reason      |-> Group(preprocessed_text, rec_match, 1),
                   interface   |-> Group(preprocessed_text, rec_match, 2)]
             ELSE None

(***************************************************************************)
(* Inputs: the lines the log source can supply                             *)
(***************************************************************************)
\* bounds of the model
MaxLines == 3

MaxConcLines == 2

MaxClock == 1

\* the invocations of process() that may run at the same time
Procs == {1, 2}

\* the lines of the end-to-end scenarios and a whitespace-only line
Scenario1 ==
    <<"S","W","1"," ","%","P","M","-","4","-","E","R","R","_","D","I","S",
      "A","B","L","E",":"," ","b","p","d","u","g","u","a","r","d"," ",
      "e","r","r","o","r"," ","d","e","t","e","c","t","e","d"," ","o","n",
      " ","G","i","1","/","0","/","1">>

Scenario2 ==
    <<"S","W","2"," ","%","P","M","-","4","-","E","R","R","_","R","E","C",
      "O","V","E","R",":"," ","A","t","t","e","m","p","t","i","n","g"," ",
      "t","o"," ","r","e","c","o","v","e","r"," ","f","r","o","m"," ",
      "b","p","d","u","g","u","a","r","d"," ","e","r","r","-","d","i","s",
      "a","b","l","e"," ","s","t","a","t","e"," ","o","n"," ",
      "G","i","1","/","0","/","2">>

Scenario4 ==
    <<"r","a","n","d","o","m"," ","u","n","r","e","l","a","t","e","d"," ",
      "t","e","x","t">>

WhitespaceLine == <<" ", "\t">>

SampleLines ==
    {Scenario1, Scenario2, Scenario4, WhitespaceLine, <<>>}

\* short lines for the concurrent invocations, told apart by their device
ConcLines(p) ==
    IF p = 1
    THEN { <<"A","1"," ","%","P","M","-","4","-","E","R","R","_","D","I",
             "S","A","B","L","E",":"," ","a"," ","e","r","r","o","r"," ",
             "d","e","t","e","c","t","e","d"," ","o","n"," ","b">>,
           <<" ">> }
    ELSE { <<"B","2"," ","%","P","M","-","4","-","E","R","R","_","R","E",
             "C","O","V","E","R",":"," ","A","t","t","e","m","p","t","i",
             "n","g"," ","t","o"," ","r","e","c","o","v","e","r"," ",
             "f","r","o","m"," ","c"," ","e","r","r","-","d","i","s","a",
             "b","l","e"," ","s","t","a","t","e"," ","o","n"," ","d">>,
           <<"x">> }

\* all sequences over S of length at most n
SeqsUpTo(S, n) == UNION {[1..k -> S] : k \in 0..n}

\* str.upper() on one character, to write a marker in capitals
UpperChar(c) ==
    IF c \in LowerLetters
    THEN CHOOSE u \in UpperLetters : UpperToLower[u] = c
    ELSE c

\* the letter case a device writes the fixed words of a line in
Styled(style, text) ==
    CASE style = "asis"  -> text
      [] style = "lower" -> Lower(text)
      [] style = "upper" -> [i \in 1..Len(text) |-> UpperChar(text[i])]

\* marker, reason R, 'error detected on', interface I
DisableForm(style, ws, R, I) ==
    Styled(style, <<"%","P","M","-","4","-","E","R","R","_",
                    "D","I","S","A","B","L","E",":">>)
    \o ws \o R \o ws
    \o Styled(style, <<"e","r","r","o","r"," ","d","e","t","e","c","t",
                       "e","d"," ","o","n">>)
    \o ws \o I

\* marker, 'Attempting to recover from', R, 'err-disable state on', I
RecoverForm(style, ws, R, I) ==
    Styled(style, <<"%","P","M","-","4","-","E","R","R","_",
                    "R","E","C","O","V","E","R",":">>)
    \o ws
    \o Styled(style, <<"A","t","t","e","m","p","t","i","n","g"," ","t","o",
                       " ","r","e","c","o","v","e","r"," ","f","r","o","m">>)
    \o ws \o R \o ws
    \o Styled(style, <<"e","r","r","-","d","i","s","a","b","l","e"," ",
                       "s","t","a","t","e"," ","o","n">>)
    \o ws \o I

\* reason and interface of the second marker form of a line that holds two
OtherReason == <<"P","s","e","c","u","r","e">>

OtherInterface == <<"T","e","1","/","1">>

\* what surrounds the marker forms of a line: the text before the device
\* token, the reason and the interface of the first form, the text after
\* the last interface
Envelopes ==
    { [lead |-> <<>>,
       R    |-> <<"b","p","d","u","g","u","a","r","d">>,
       I    |-> <<"G","i","1","/","0","/","1">>,
       tail |-> <<>>],
      [lead |-> <<"t","1",":"," ">>,
       R    |-> <<"L","i","n","k","_","F","l","a","p","2">>,
       I    |-> <<"F","A","0","/","2",",">>,
       tail |-> <<" ","u","p"," ">>] }

\* what a line is composed of: an envelope, the device token, the gap
\* before the marker, one or two marker forms (kind "D", "R", "DR", "RD",
\* "DD", "RR"; "X" is a marker with nothing after its reason), the letter
\* case of the fixed words and the blanks between the parts of a form
Forms ==
    [ env   : Envelopes,
      dev   : {<<>>, <<"S","W","1">>, <<"S","w","-","1">>,
               <<"-","s","w","1">>, <<"-">>},
      gap   : {<<>>, <<" ">>},
      kind  : {"D", "R", "DR", "RD", "DD", "RR", "X"},
      style : {"asis", "lower", "upper"},
      ws    : {<<>>, <<" ">>, <<" ", "\t">>} ]

NoForm == [kind |-> "-"]

LineOf(f) ==
    LET R == f.env.R
        I == f.env.I
        first ==
            CASE f.kind \in {"D", "DR", "DD"} ->
                   DisableForm(f.style, f.ws, R, I)
              [] f.kind \in {"R", "RD", "RR"} ->
                   RecoverForm(f.style, f.ws, R, I)
              [] f.kind = "X" ->
                   Styled(f.style, <<"%","P","M","-","4","-","E","R","R",
                                     "_","D","I","S","A","B","L","E",":">>)
                   \o f.ws \o R
        second ==
            CASE f.kind \in {"DR", "RR"} ->
                   <<" ">> \o RecoverForm(f.style, f.ws, OtherReason,
                                          OtherInterface)
              [] f.kind \in {"RD", "DD"} ->
                   <<" ">> \o DisableForm(f.style, f.ws, OtherReason,
                                          OtherInterface)
              [] OTHER -> <<>>
    IN  f.env.lead \o f.dev \o f.gap \o first \o second \o f.env.tail

(***************************************************************************)
(* State                                                                   *)
(***************************************************************************)
VARIABLES
    form,               \* how the line of a one-line batch was composed
    lines,              \* lines[p]: content.splitlines() of invocation p
    pc,                 \* pc[p]: where invocation p stands in process()
    data,               \* data[p]: request.json
    idx,                \* idx[p]: lines the for loop has taken
    cleaned,            \* the locals of process()
    extracted,
    processed_records,
    skipped_lines,
    insert_result,
    response,           \* response[p]: what process() returned
    sink,               \* the calls bq_client.insert_rows_json received
    now                 \* the last time datetime.utcnow() returned

vars == <<form, lines, pc, data, idx, cleaned, extracted, processed_records,
          skipped_lines, insert_result, response, sink, now>>

\* a local that no assignment has bound yet
Unbound == <<"<unbound>">>

UnboundFields == [py |-> "unbound"]

NoResponse == [code |-> 0]

NoResult == [py |-> "unbound"]

\* the request bodies: complete, without bucket, without file
Requests ==
    { [bucket |-> "logs", file |-> "sw.log"],
      [bucket |-> "",     file |-> "sw.log"],
      [bucket |-> "logs", file |-> ""] }

InitLocals ==
    /\ data = [p \in Procs |-> [bucket |-> "", file |-> ""]]
    /\ idx = [p \in Procs |-> 0]
    /\ cleaned = [p \in Procs |-> Unbound]
    /\ extracted = [p \in Procs |-> UnboundFields]
    /\ processed_records = [p \in Procs |-> <<>>]
    /\ skipped_lines = [p \in Procs |-> 0]
    /\ insert_result = [p \in Procs |-> NoResult]
    /\ response = [p \in Procs |-> NoResponse]
    /\ sink = <<>>
    /\ now = 0

\* one invocation, any batch of up to MaxLines sample lines
Init ==
    /\ form = NoForm
    /\ \E batch \in SeqsUpTo(SampleLines, MaxLines) :
           lines = [p \in Procs |-> IF p = 1 THEN batch ELSE <<>>]
    /\ pc = [p \in Procs |-> IF p = 1 THEN "start" ELSE "absent"]
    /\ InitLocals

\* one invocation, a batch of one composed line
InitForm ==
    /\ form \in Forms
    /\ lines = [p \in Procs |-> IF p = 1 THEN <<LineOf(form)>> ELSE <<>>]
    /\ pc = [p \in Procs |-> IF p = 1 THEN "start" ELSE "absent"]
    /\ InitLocals

\* two invocations at once, each on its own batch
InitConc ==
    /\ form = NoForm
    /\ lines \in [Procs -> UNION {SeqsUpTo(ConcLines(p), MaxConcLines)
                                    : p \in Procs}]
    /\ \A p \in Procs : lines[p] \in SeqsUpTo(ConcLines(p), MaxConcLines)
    /\ pc = [p \in Procs |-> "start"]
    /\ InitLocals

(***************************************************************************)
(* process()                                                               *)
(***************************************************************************)
\* datetime.utcnow(): the clock reads last or any later time
Clock(last) == last..MaxClock

\* a blank test that tests only: if not line
IsBlank_empty_only(line) == line = <<>>

\* a blank test that also takes the lines no pattern matches
IsBlank_or_unmatched(line) ==
    \/ line = <<>>
    \/ Strip(line) = <<>>
    \/ extract_fields(preprocess_text(line), line) = None

\* if not line or not line.strip()
IsBlank(line) == line = <<>> \/ Strip(line) = <<>>

\* bq_record, built for a line whose classification is extracted
bq_record(extracted_, line, utcnow) ==
    [event_timestamp |-> utcnow,
     device_name     |-> extracted_.device_name,
     interface       |-> extracted_.interface,
     error_reason    |-> extracted_.reason,
     raw_message     |-> line]

\* processed_records.insert(0, bq_record)
AppendRecord_prepend(all_records, p, record) ==
    [all_records EXCEPT ![p] = <<record>> \o @]

\* processed_records as one module-level list that every invocation appends to
AppendRecord_shared(all_records, p, record) ==
    [q \in DOMAIN all_records |-> Append(all_records[q], record)]

\* processed_records.append(bq_record), processed_records local to p
AppendRecord(all_records, p, record) ==
    [all_records EXCEPT ![p] = Append(@, record)]

\* rows_to_insert built with insert(0, row)
rows_to_insert_reversed(records, current_time) ==
    [i \in 1..Len(records) |->
        [event_timestamp |-> records[Len(records) + 1 - i].event_timestamp,
         device_name     |-> records[Len(records) + 1 - i].device_name,
         interface       |-> records[Len(records) + 1 - i].interface,
         error_reason    |-> records[Len(records) + 1 - i].error_reason,
         raw_message     |-> records[Len(records) + 1 - i].raw_message,
         ingestion_time  |-> current_time]]

\* rows_to_insert of insert_to_bigquery
rows_to_insert(records, current_time) ==
    [i \in 1..Len(records) |->
        [event_timestamp |-> records[i].event_timestamp,
         device_name     |-> records[i].device_name,
         interface       |-> records[i].interface,
         error_reason    |-> records[i].error_reason,
         raw_message     |-> records[i].raw_message,
         ingestion_time  |-> current_time]]

\* the per-row errors insert_rows_json returns when it rejects the rows
\* whose indices are in rejected (ascending)
RECURSIVE RowErrors(_, _)
RowErrors(rejected, n) ==
    IF n = 0 THEN <<>>
    ELSE IF n \in rejected
         THEN Append(RowErrors(rejected, n - 1), [index |-> n - 1])
         ELSE RowErrors(rejected, n - 1)

\* what insert_to_bigquery returns for the errors the sink returned
insert_outcome(rows, errors) ==
    IF errors # <<>>
    THEN [inserted |-> 0, errors |-> errors]
    ELSE [inserted |-> Len(rows), errors |-> <<>>]

\* request validation, blob lookup and download
Begin(p) ==
    /\ pc[p] = "start"
    /\ \E d \in Requests, exists \in BOOLEAN :
          /\ data' = [data EXCEPT ![p] = d]
          /\ IF d.bucket = "" \/ d.file = ""
             THEN /\ response' = [response EXCEPT ![p] =
                        [code |-> 400, error |-> "bucket and file required"]]
                  /\ pc' = [pc EXCEPT ![p] = "done"]
             ELSE IF ~exists
             THEN /\ response' = [response EXCEPT ![p] =
                        [code |-> 404, error |-> "not found"]]
                  /\ pc' = [pc EXCEPT ![p] = "done"]
             ELSE /\ response' = response
                  /\ pc' = [pc EXCEPT ![p] = "loop"]
    /\ UNCHANGED <<form, lines, idx, cleaned, extracted, processed_records,
                   skipped_lines, insert_result, sink, now>>

\* request.json is None, or the storage client raises: the except clause
\* answers 500
BeginRaises(p) ==
    /\ pc[p] = "start"
    /\ response' = [response EXCEPT ![p] = [code |-> 500, status |-> "error"]]
    /\ pc' = [pc EXCEPT ![p] = "done"]
    /\ UNCHANGED <<form, lines, data, idx, cleaned, extracted,
                   processed_records, skipped_lines, insert_result, sink,
                   now>>

\* one iteration of: for line in content.splitlines()
ProcessLine(p) ==
    /\ pc[p] = "loop"
    /\ idx[p] < Len(lines[p])
    /\ LET line == lines[p][idx[p] + 1] IN
       /\ idx' = [idx EXCEPT ![p] = @ + 1]
       /\ IF IsBlank(line)
          THEN /\ skipped_lines' = [skipped_lines EXCEPT ![p] = @ + 1]
               /\ UNCHANGED <<cleaned, extracted, processed_records, now>>
          ELSE \* c and e are bound to values, each computed once
               \E c \in {preprocess_text(line)} :
               \E e \in {extract_fields(c, line)} :
                   /\ cleaned' = [cleaned EXCEPT ![p] = c]
                   /\ extracted' = [extracted EXCEPT ![p] = e]
                   /\ skipped_lines' = skipped_lines
                   /\ IF e # None
                      THEN \E utcnow \in Clock(now) :
                             /\ now' = utcnow
                             /\ processed_records' =
                                  AppendRecord(processed_records, p,
                                               bq_record(e, line, utcnow))
                      ELSE /\ processed_records' = processed_records
                           /\ now' = now
    /\ UNCHANGED <<form, lines, pc, data, insert_result, response, sink>>

\* the loop ends
EndLoop(p) ==
    /\ pc[p] = "loop"
    /\ idx[p] = Len(lines[p])
    /\ pc' = [pc EXCEPT ![p] = "insert"]
    /\ UNCHANGED <<form, lines, data, idx, cleaned, extracted,
                   processed_records, skipped_lines, insert_result,
                   response, sink, now>>

\* insert_to_bigquery(processed_records) with nothing to insert
InsertNothing(p) ==
    /\ pc[p] = "insert"
    /\ processed_records[p] = <<>>
    /\ insert_result' = [insert_result EXCEPT ![p] =
                            [inserted |-> 0, errors |-> <<>>]]
    /\ pc' = [pc EXCEPT ![p] = "respond"]
    /\ UNCHANGED <<form, lines, data, idx, cleaned, extracted,
                   processed_records, skipped_lines, response, sink, now>>

\* insert_to_bigquery(processed_records): one insert_rows_json call, which
\* rejects any set of rows
InsertRows(p) ==
    /\ pc[p] = "insert"
    /\ processed_records[p] # <<>>
    /\ \E current_time \in Clock(now) :
          LET rows == rows_to_insert(processed_records[p], current_time) IN
          \E rejected \in SUBSET (1..Len(rows)) :
             LET errors == RowErrors(rejected, Len(rows)) IN
             /\ now' = current_time
             /\ sink' = Append(sink, [by |-> p, rows |-> rows,
                                      errors |-> errors])
             /\ insert_result' = [insert_result EXCEPT ![p] =
                                     insert_outcome(rows, errors)]
    /\ pc' = [pc EXCEPT ![p] = "respond"]
    /\ UNCHANGED <<form, lines, data, idx, cleaned, extracted,
                   processed_records, skipped_lines, response>>

\* insert_rows_json raises: the except clause answers 500
InsertRaises(p) ==
    /\ pc[p] = "insert"
    /\ processed_records[p] # <<>>
    /\ \E current_time \in Clock(now) :
          /\ now' = current_time
          /\ sink' = Append(sink,
                [by |-> p,
                 rows |-> rows_to_insert(processed_records[p], current_time),
                 errors |-> <<[raised |-> TRUE]>>])
    /\ response' = [response EXCEPT ![p] = [code |-> 500, status |-> "error"]]
    /\ pc' = [pc EXCEPT ![p] = "done"]
    /\ UNCHANGED <<form, lines, data, idx, cleaned, extracted,
                   processed_records, skipped_lines, insert_result>>

\* the two jsonify(...) returns after the insert
Respond(p) ==
    /\ pc[p] = "respond"
    /\ response' = [response EXCEPT ![p] =
          IF insert_result[p].errors # <<>>
          THEN [code |-> 207,
                status |-> "partial_success",
                processed_lines |-> Len(lines[p]),
                skipped_lines |-> skipped_lines[p],
                matched_records |-> Len(processed_records[p]),
                inserted_records |-> insert_result[p].inserted,
                bigquery_errors |-> insert_result[p].errors]
          ELSE [code |-> 200,
                status |-> "success",
                processed_lines |-> Len(lines[p]),
                skipped_lines |-> skipped_lines[p],
                matched_records |-> Len(processed_records[p]),
                inserted_records |-> insert_result[p].inserted,
                bucket |-> data[p].bucket,
                file |-> data[p].file]]
    /\ pc' = [pc EXCEPT ![p] = "done"]
    /\ UNCHANGED <<form, lines, data, idx, cleaned, extracted,
                   processed_records, skipped_lines, insert_result, sink,
                   now>>

Next ==
    \/ \E p \in Procs : Begin(p)
    \/ \E p \in Procs : BeginRaises(p)
    \/ \E p \in Procs : ProcessLine(p)
    \/ \E p \in Procs : EndLoop(p)
    \/ \E p \in Procs : InsertNothing(p)
    \/ \E p \in Procs : InsertRows(p)
    \/ \E p \in Procs : InsertRaises(p)
    \/ \E p \in Procs : Respond(p)

Spec == Init /\ [][Next]_vars

SpecForm == InitForm /\ [][Next]_vars

SpecConc == InitConc /\ [][Next]_vars

(***************************************************************************)
(* What the lines are, stated without the functions under test             *)
(***************************************************************************)
\* a line that is empty or holds blanks only
BlankLine(line) == \A i \in 1..Len(line) : line[i] \in SpaceChars

NonBlankLine(line) == ~BlankLine(line)

\* the event each sample line reports: "ERR_DISABLE", "ERR_RECOVER" or none
ExpectedKind(line) ==
    IF BlankLine(line) THEN "BLANK"
    ELSE IF line \in {Scenario1} \cup {l \in ConcLines(1) : Len(l) > 1}
    THEN "ERR_DISABLE"
    ELSE IF line \in {Scenario2} \cup {l \in ConcLines(2) : Len(l) > 1}
    THEN "ERR_RECOVER"
    ELSE "UNMATCHED"

MatchingLine(line) == ExpectedKind(line) \in {"ERR_DISABLE", "ERR_RECOVER"}

UnmatchedLine(line) == ExpectedKind(line) = "UNMATCHED"

\* the lines the loop of invocation p has taken so far
Prefix(p) == SubSeq(lines[p], 1, idx[p])

RawMessages(records) == [i \in 1..Len(records) |-> records[i].raw_message]

\* the responses that report the counters
Counted(p) == response[p].code \in {200, 207}

\* the calls the sink received from invocation p
SinkCallsOf(p) == SelectSeq(sink, LAMBDA call : call.by = p)

\* the line of a one-line batch and what became of it
FormDone == form # NoForm /\ idx[1] = 1

FormLine == lines[1][1]

\* the reason and the interface of the leftmost ERR_DISABLE form of a
\* composed line, and those of its leftmost ERR_RECOVER form, case-folded
\* by hand
FoldedReason(f) ==
    IF f.env.lead = <<>>
    THEN <<"b","p","d","u","g","u","a","r","d">>
    ELSE <<"l","i","n","k","_","f","l","a","p","2">>

FoldedInterface(f) ==
    IF f.env.lead = <<>>
    THEN <<"g","i","1","/","0","/","1">>
    ELSE <<"f","a","0","/","2",",">>

FoldedOtherReason == <<"p","s","e","c","u","r","e">>

FoldedOtherInterface == <<"t","e","1","/","1">>

HasDisableForm(f) == f.kind \in {"D", "DR", "RD", "DD"}

HasRecoverForm(f) == f.kind \in {"R", "DR", "RD", "RR"}

DisableFields(f) ==
    IF f.kind = "RD"
    THEN <<FoldedOtherReason, FoldedOtherInterface>>
    ELSE <<FoldedReason(f), FoldedInterface(f)>>

RecoverFields(f) ==
    IF f.kind = "DR"
    THEN <<FoldedOtherReason, FoldedOtherInterface>>
    ELSE <<FoldedReason(f), FoldedInterface(f)>>

Classified(p, kind, fields) ==
    /\ extracted[p] # None
    /\ extracted[p] # UnboundFields
    /\ extracted[p].event_type = kind
    /\ extracted[p].reason = fields[1]
    /\ extracted[p].interface = fields[2]

\* the positions of a line where the marker prefix %PM-4 stands
MarkerPositions(line) ==
    {m \in 1..Len(line) : LitAt(<<"%","P","M","-","4">>, line, m)}

HyphenWord == WordChars \cup {"-"}

\* the run of word/hyphen characters that ends before the marker at m,
\* blanks between the run and the marker skipped
RunBefore(line, m) ==
    LET e == CHOOSE j \in 0..(m - 1) :
                /\ j = 0 \/ line[j] \notin SpaceChars
                /\ \A k \in (j + 1)..(m - 1) : line[k] \in SpaceChars
        b == CHOOSE j \in 1..(e + 1) :
                /\ \A k \in j..e : line[k] \in HyphenWord
                /\ j = 1 \/ line[j - 1] \notin HyphenWord
    IN  SubSeq(line, b, e)

\* a run without its leading hyphens
RECURSIVE DropHyphens(_)
DropHyphens(run) ==
    IF run # <<>> /\ Head(run) = "-" THEN DropHyphens(Tail(run)) ELSE run

\* the device token as C8 states it: the run before the first marker that
\* has one, "unknown" when no marker has one
DeviceRun(line) ==
    LET ms == {m \in MarkerPositions(line) : RunBefore(line, m) # <<>>} IN
    IF ms = {} THEN Unknown
    ELSE RunBefore(line, CHOOSE m \in ms : \A n \in ms : m <= n)

\* the device token as the code takes it: a run starts at a word character
DeviceToken(line) ==
    LET ms == {m \in MarkerPositions(line) :
                  DropHyphens(RunBefore(line, m)) # <<>>} IN
    IF ms = {} THEN Unknown
    ELSE DropHyphens(RunBefore(line, CHOOSE m \in ms : \A n \in ms : m <= n))

(***************************************************************************)
(* The claims                                                              *)
(***************************************************************************)

\* C1: at every point of the batch loop the records built so far are those
\* of the matching lines of the prefix already processed: as many records
\* as matching lines, the i-th record's raw_message the i-th matching line,
\* same order, identical lines kept.
C1_RecordsFollowMatchingLines ==
    \A p \in Procs :
        RawMessages(processed_records[p]) = SelectSeq(Prefix(p), MatchingLine)

C1_Witness ==
    /\ pc[1] = "done"
    /\ lines[1] = <<Scenario2, Scenario4, Scenario2>>
    /\ RawMessages(processed_records[1]) = <<Scenario2, Scenario2>>

\* C2: a blank line (empty or whitespace only) adds one to skipped_lines,
\* appends no record and is neither normalized nor classified, so cleaned
\* and extracted stay those of the last non-blank line (cleaned is never
\* the empty text); the response reports as skipped_lines the number of
\* blank lines of the batch.
C2_BlankLinesSkipped ==
    \A p \in Procs :
        /\ skipped_lines[p] = Len(SelectSeq(Prefix(p), BlankLine))
        /\ \A i \in 1..Len(processed_records[p]) :
               ~BlankLine(processed_records[p][i].raw_message)
        /\ cleaned[p] # <<>>
        /\ (cleaned[p] = Unbound) <=> (SelectSeq(Prefix(p), NonBlankLine) = <<>>)
        /\ (extracted[p] = UnboundFields) <=> (cleaned[p] = Unbound)
        /\ Counted(p) =>
               response[p].skipped_lines =
                   Len(SelectSeq(lines[p], BlankLine))

C2_Witness ==
    /\ pc[1] = "done"
    /\ Counted(1)
    /\ lines[1] = <<Scenario1, WhitespaceLine, <<>>>>
    /\ response[1].skipped_lines = 2
    /\ response[1].matched_records = 1
    /\ cleaned[1] = preprocess_text(Scenario1)

\* C3 as stated: a line that holds the ERR_DISABLE form is classified
\* ERR_DISABLE, a line that holds the ERR_RECOVER form is classified
\* ERR_RECOVER, each with the case-folded reason and interface of its form
\* (of the leftmost one when the line repeats the form).
C3_EveryFormClassifiedAsItsMarker ==
    FormDone =>
        /\ HasDisableForm(form) =>
               Classified(1, "ERR_DISABLE", DisableFields(form))
        /\ HasRecoverForm(form) =>
               Classified(1, "ERR_RECOVER", RecoverFields(form))

\* C3 amended: a line that holds the ERR_DISABLE form is classified
\* ERR_DISABLE with the case-folded reason and interface of that form; a
\* line that holds the ERR_RECOVER form and no ERR_DISABLE form is
\* classified ERR_RECOVER with the case-folded reason and interface of that
\* form; in any letter case of the fixed words, and of the leftmost form
\* when the line repeats it.
C3_FormClassified ==
    FormDone =>
        /\ HasDisableForm(form) =>
               Classified(1, "ERR_DISABLE", DisableFields(form))
        /\ (HasRecoverForm(form) /\ ~HasDisableForm(form)) =>
               Classified(1, "ERR_RECOVER", RecoverFields(form))

C3_Witness ==
    /\ FormDone
    /\ form.kind = "R"
    /\ form.style = "upper"
    /\ form.env.R = <<"L","i","n","k","_","F","l","a","p","2">>
    /\ Classified(1, "ERR_RECOVER",
                  << <<"l","i","n","k","_","f","l","a","p","2">>,
                     <<"f","a","0","/","2",",">> >>)

\* C4: when the normalized line satisfies both patterns the result is
\* ERR_DISABLE with the groups of the ERR_DISABLE match, wherever the two
\* markers stand; ERR_RECOVER is returned only when the ERR_DISABLE pattern
\* does not match.
C4_DisableBeforeRecover ==
    FormDone /\ cleaned[1] # Unbound =>
        LET err_match == Search(ERR_DISABLE_PATTERN, cleaned[1])
            rec_match == Search(RECOVER_PATTERN, cleaned[1])
        IN  /\ (err_match.ok /\ rec_match.ok) =>
                  /\ form.kind \in {"DR", "RD"}
                  /\ Classified(1, "ERR_DISABLE",
                                <<Group(cleaned[1], err_match, 1),
                                  Group(cleaned[1], err_match, 2)>>)
                  /\ Classified(1, "ERR_DISABLE", DisableFields(form))
            /\ form.kind \in {"DR", "RD"} => (err_match.ok /\ rec_match.ok)
            /\ (extracted[1] # None /\ extracted[1].event_type = "ERR_RECOVER")
                  => (~err_match.ok /\ form.kind \in {"R", "RR"})

C4_Witness ==
    /\ FormDone
    /\ form.kind = "RD"
    /\ Search(RECOVER_PATTERN, cleaned[1]).ok
    /\ Classified(1, "ERR_DISABLE", <<FoldedOtherReason, FoldedOtherInterface>>)

\* C5: a non-blank line that matches neither pattern is classified None,
\* appends no record and leaves skipped_lines alone; it is counted in the
\* lines processed only, so lines = skipped + matched + unmatched non-blank,
\* in the loop and in the response.
C5_UnmatchedLinesOnlyCounted ==
    \A p \in Procs :
        /\ idx[p] = skipped_lines[p] + Len(processed_records[p])
                      + Len(SelectSeq(Prefix(p), UnmatchedLine))
        /\ \A i \in 1..Len(processed_records[p]) :
               ~UnmatchedLine(processed_records[p][i].raw_message)
        /\ (idx[p] > 0 /\ UnmatchedLine(lines[p][idx[p]])) =>
               extracted[p] = None
        /\ Counted(p) =>
               response[p].processed_lines =
                   response[p].skipped_lines + response[p].matched_records
                     + Len(SelectSeq(lines[p], UnmatchedLine))

C5_Witness ==
    /\ pc[1] = "done"
    /\ Counted(1)
    /\ lines[1] = <<Scenario1, Scenario4, <<>>>>
    /\ extracted[1] = None
    /\ response[1].processed_lines = 3
    /\ response[1].skipped_lines = 1
    /\ response[1].matched_records = 1

\* C6: when the sink rejects rows of a batch of M records the response is a
\* partial failure, reports all M records as matched, and the accepted
\* records it reports plus the rejected rows it lists are M.
C6_PartialFailureAccounted ==
    \A p \in Procs :
        response[p].code = 207 =>
            /\ response[p].status = "partial_success"
            /\ response[p].matched_records = Len(processed_records[p])
            /\ response[p].inserted_records + Len(response[p].bigquery_errors)
                  = response[p].matched_records

\* C7: every record built for a matched line, and every row handed to the
\* sink, carries event_type, device_name, interface, error_reason,
\* raw_message, event_timestamp and ingestion_time.
C7_RecordsCarryAllFields ==
    LET Fields == {"event_type", "device_name", "interface", "error_reason",
                   "raw_message", "event_timestamp", "ingestion_time"}
    IN  /\ \A p \in Procs : \A i \in 1..Len(processed_records[p]) :
               Fields \subseteq DOMAIN processed_records[p][i]
        /\ \A c \in 1..Len(sink) : \A i \in 1..Len(sink[c].rows) :
               Fields \subseteq DOMAIN sink[c].rows[i]

\* C8 as stated: the device name of a classified line is the run of
\* word/hyphen characters before the marker, taken from the original line.
C8_DeviceIsRunBeforeMarker ==
    (FormDone /\ extracted[1] # None) =>
        extracted[1].device_name = DeviceRun(FormLine)

\* C8 amended: the device name of a classified line is taken from the
\* original line, letter case preserved: the run of word/hyphen characters
\* before the marker without its leading hyphens, "unknown" when nothing is
\* left of it; reason and interface of the same result are case-folded, and
\* the line still produces a record, which carries that device name.
C8_DeviceFromOriginalLine ==
    (FormDone /\ extracted[1] # None) =>
        /\ extracted[1].device_name = DeviceToken(FormLine)
        /\ extracted[1].reason = Lower(extracted[1].reason)
        /\ extracted[1].interface = Lower(extracted[1].interface)
        /\ Len(processed_records[1]) = 1
        /\ processed_records[1][1].device_name = DeviceToken(FormLine)
        /\ processed_records[1][1].raw_message = FormLine

C8_Witness ==
    /\ FormDone
    /\ form.dev = <<"S","w","-","1">>
    /\ form.style = "lower"
    /\ extracted[1] # None
    /\ extracted[1].device_name = <<"S","w","-","1">>
    /\ extracted[1].reason = <<"l","i","n","k","_","f","l","a","p","2">>
    /\ processed_records[1][1].device_name = <<"S","w","-","1">>

\* C9: an invocation makes no sink call while its lines are processed and
\* at most one afterwards, never a second one after a rejection; the call
\* hands over all built records in their built order.
C9_OneBatchAfterTheLoop ==
    \A p \in Procs :
        LET calls == SinkCallsOf(p) IN
        /\ Len(calls) <= 1
        /\ pc[p] \in {"start", "loop", "insert"} => calls = <<>>
        /\ calls # <<>> =>
              /\ idx[p] = Len(lines[p])
              /\ Len(calls[1].rows) = Len(processed_records[p])
              /\ \A i \in 1..Len(calls[1].rows) :
                    \A f \in DOMAIN processed_records[p][i] :
                        calls[1].rows[i][f] = processed_records[p][i][f]

C9_Witness ==
    /\ pc[1] = "done"
    /\ response[1].code = 207
    /\ Len(SinkCallsOf(1)) = 1
    /\ RawMessages(SinkCallsOf(1)[1].rows) = <<Scenario2, Scenario1>>
    /\ SinkCallsOf(1)[1].errors # <<>>

\* C10: under every interleaving of two invocations each one's records and
\* counters are those of its own lines, and the batch it hands to the sink
\* holds the records of its own lines only.
C10_InvocationsIsolated ==
    \A p \in Procs :
        /\ RawMessages(processed_records[p])
              = SelectSeq(Prefix(p), MatchingLine)
        /\ skipped_lines[p] = Len(SelectSeq(Prefix(p), BlankLine))
        /\ \A c \in 1..Len(sink) :
              sink[c].by = p =>
                  RawMessages(sink[c].rows)
                     = SelectSeq(lines[p], MatchingLine)
        /\ Counted(p) =>
              /\ response[p].processed_lines = Len(lines[p])
              /\ response[p].skipped_lines
                    = Len(SelectSeq(lines[p], BlankLine))
              /\ response[p].matched_records
                    = Len(SelectSeq(lines[p], MatchingLine))

C10_Witness ==
    /\ pc[1] = "loop" /\ pc[2] = "loop"
    /\ idx[1] = 1 /\ idx[2] = 1
    /\ Len(lines[1]) = 2 /\ Len(lines[2]) = 2
    /\ Len(processed_records[1]) = 1
    /\ Len(processed_records[2]) = 1

=============================================================================
